---- MODULE Spec2Model ----
(***************************************************************************)
(* A model of ModLog: the Kripke model class and the expression classes of *)
(* data.py (construction, the blind-world cache, calc and entails), the    *)
(* interning table behind create_expression / create_var_const, and the    *)
(* operator-precedence parser of parser.py.                                *)
(***************************************************************************)
EXTENDS Integers, FiniteSets, Sequences, TLC

\* One Kripke object (W, R, V and its cache of blind worlds), the module's
\* interning table `instances` with the objects the constructors have built
\* (an object is known by its position in `objects`), what the last call
\* returned, and every (class, arguments, object) a create call has returned.
VARIABLES W, R, V, cached_blind_worlds, instances, objects, returned, ret

kripke == <<W, R, V, cached_blind_worlds>>
repo == <<instances, objects, returned>>
vars == <<W, R, V, cached_blind_worlds, instances, objects, returned, ret>>

\* World identifiers are 1..NumWorlds, declared in W or not; a model holds
\* at most MaxElems edges and valuation entries together.
NumWorlds == 2
MaxElems == 2

\* The constructors build at most MaxObjects objects.
MaxObjects == 3

\* The parser is given inputs while the table holds at most MaxParsed
\* objects.
MaxParsed == 5

WorldIds == 1..NumWorlds

\* The variable names of the expressions; the calls give a valuation to
\* those of Valued, the others stay unknown to the model.
Names == {"p", "q"}
Valued == {"p"}

\* Python's None for the cache is <<>>, a cached set S is <<S>>.
None == <<>>

\* The empty defaultdict(set).
EmptyDict == [x \in {} |-> {}]

\* defaultdict(set).__getitem__: the value read ...
Get(d, key) == IF key \in DOMAIN d THEN d[key] ELSE {}

\* ... and the keys a read inserts (a missing key is stored with set()).
Touch(d, keys) == [x \in (DOMAIN d) \cup keys |-> IF x \in DOMAIN d THEN d[x] ELSE {}]

\* d[key].add / d[key].update(xs)
Update(d, key, xs) == [x \in (DOMAIN d) \cup {key} |-> IF x = key THEN Get(d, key) \cup xs ELSE d[x]]

\* The Kripke object as one value.
Kripke(w, r, v, c) == [W |-> w, R |-> r, V |-> v, cache |-> c]
M == Kripke(W, R, V, cached_blind_worlds)

RECURSIVE SumCard(_, _)
SumCard(d, keys) ==
  IF keys = {} THEN 0
  ELSE LET x == CHOOSE y \in keys : TRUE
       IN Cardinality(d[x]) + SumCard(d, keys \ {x})

Size(k) == SumCard(k.R, DOMAIN k.R) + SumCard(k.V, DOMAIN k.V)

\* The worlds of k.W with no outgoing edge, as the relation stands now.
NoSuccessors(k) == {w \in k.W : Get(k.R, w) = {}}

\* Kripke.blind_worlds: the cached set when there is one, else computed,
\* stored and returned (reading R[w] inserts every w of W as a key).
blind_worlds(k) ==
  IF k.cache # None
  THEN [ret |-> k.cache[1], k |-> k]
  ELSE [ret |-> NoSuccessors(k),
        k |-> [k EXCEPT !.R = Touch(k.R, k.W), !.cache = <<NoSuccessors(k)>>]]


-----------------------------------------------------------------------------
(* Expressions: one record per class of data.py, with the class's fields.  *)

Var(n)        == [cls |-> "Var", name |-> n]
Constant(b)   == [cls |-> "Constant", value |-> b]
Not(e)        == [cls |-> "Not", expr |-> e]
Box(e)        == [cls |-> "Box", expr |-> e]
Diamond(e)    == [cls |-> "Diamond", expr |-> e]
And(l, r)     == [cls |-> "And", left |-> l, right |-> r]
Or(l, r)      == [cls |-> "Or", left |-> l, right |-> r]
Implies(l, r) == [cls |-> "Implies", left |-> l, right |-> r]

\* Var.calc: the valuation's own set, whatever worlds it holds.
VarCalc(e, k) == [ret |-> Get(k.V, e.name), k |-> [k EXCEPT !.V = Touch(k.V, {e.name})]]

\* Constant.calc
ConstantCalc(e, k) == [ret |-> IF e.value THEN k.W ELSE {}, k |-> k]

\* Not.calc, given the operand's result
NotCalc(k, inner) == k.W \ inner

\* And.calc / Or.calc, given both operands' results
\* (an And that joins its operands as Or does, to compare against)
AndCalcUnion(lhs, rhs) == lhs \cup rhs
AndCalc(lhs, rhs) == lhs \cap rhs
OrCalc(lhs, rhs) == lhs \cup rhs

\* Box.calc after the operand: every successor in `internal`, then the
\* blind worlds as blind_worlds() reports them.
BoxCalc(k, internal) ==
  LET actual == {w \in k.W : \A v \in Get(k.R, w) : v \in internal}
      b      == blind_worlds([k EXCEPT !.R = Touch(k.R, k.W)])
  IN [ret |-> actual \cup b.ret, k |-> b.k]

\* (a Diamond that asks for every successor as Box does, to compare against)
DiamondCalcAll(k, internal) ==
  [ret |-> {w \in k.W : \A v \in Get(k.R, w) : v \in internal},
   k |-> [k EXCEPT !.R = Touch(k.R, k.W)]]

\* Diamond.calc after the operand: some successor in `internal`.
DiamondCalc(k, internal) ==
  [ret |-> {w \in k.W : \E v \in Get(k.R, w) : v \in internal},
   k |-> [k EXCEPT !.R = Touch(k.R, k.W)]]

\* calc(e, k): the set returned and the model as the call leaves it.
RECURSIVE calc(_, _)
calc(e, k) ==
  CASE e.cls = "Var" -> VarCalc(e, k)
    [] e.cls = "Constant" -> ConstantCalc(e, k)
    [] e.cls = "Not" ->
         LET i == calc(e.expr, k) IN [ret |-> NotCalc(i.k, i.ret), k |-> i.k]
    [] e.cls = "And" ->
         LET l == calc(e.left, k)
             r == calc(e.right, l.k)
         IN [ret |-> AndCalc(l.ret, r.ret), k |-> r.k]
    [] e.cls = "Or" ->
         LET l == calc(e.left, k)
             r == calc(e.right, l.k)
         IN [ret |-> OrCalc(l.ret, r.ret), k |-> r.k]
    [] e.cls = "Implies" ->
         LET l   == calc(e.left, k)
             res == l.k.W \ l.ret
         IN IF l.ret = {}
            THEN [ret |-> res, k |-> l.k]
            ELSE LET r == calc(e.right, l.k)
                 IN [ret |-> res \cup (l.ret \cap r.ret), k |-> r.k]
    [] e.cls = "Box" ->
         LET i == calc(e.expr, k) IN BoxCalc(i.k, i.ret)
    [] e.cls = "Diamond" ->
         LET i == calc(e.expr, k) IN DiamondCalc(i.k, i.ret)

\* sorted(S) of a set of world identifiers: the ascending list.
RECURSIVE sorted(_)
sorted(S) ==
  IF S = {} THEN <<>>
  ELSE LET m == CHOOSE x \in S : \A y \in S : x <= y
       IN <<m>> \o sorted(S \ {m})

\* (an entails that only asks calc(e) to cover W, to compare against)
entailsSuperset(e, k) ==
  LET c == calc(e, k) IN [ret |-> c.k.W \subseteq c.ret, k |-> c.k]

\* Kripke.entails
entails(e, k) ==
  LET c == calc(e, k) IN [ret |-> sorted(c.k.W) = sorted(c.ret), k |-> c.k]

-----------------------------------------------------------------------------
(* The expressions the properties range over, and those the calls pass.    *)

Atoms == {Var(n) : n \in Names} \cup {Constant(TRUE), Constant(FALSE)}
Prefixed(S) == {Not(e) : e \in S} \cup {Box(e) : e \in S} \cup {Diamond(e) : e \in S}
Infixed(A, B) ==
  {And(l, r) : l \in A, r \in B} \cup {Or(l, r) : l \in A, r \in B}
    \cup {Implies(l, r) : l \in A, r \in B}
Exprs1 == Atoms \cup Prefixed(Atoms) \cup Infixed(Atoms, Atoms)
Samples == Atoms \cup Prefixed(Atoms)
Operands == {Var("p"), Constant(TRUE), Box(Var("p")), Diamond(Var("p"))}

\* The arguments of the calls on a model under construction ...
CalcArgs == {Box(Var("p")), Diamond(Var("p"))}
EntailsArgs == {Box(Var("p"))}

\* ... and those of the calls on a finished model.
PureCalcArgs == {Not(And(Var("p"), Box(Var("p"))))}
PureEntailsArgs == {Var("p")}

-----------------------------------------------------------------------------
(* The calls on one Kripke object.  `ret` is what the last call returned.  *)

\* The module as loaded: nothing interned.
RepoInit ==
  /\ instances = <<>>
  /\ objects = <<>>
  /\ returned = {}

KInit ==
  /\ W = {}
  /\ R = EmptyDict
  /\ V = EmptyDict
  /\ cached_blind_worlds = None
  /\ ret = [op |-> "__init__"]
  /\ RepoInit

\* The model becomes k (within the bound) and the call returns r.
Becomes(k, r) ==
  /\ Size(k) <= MaxElems
  /\ W' = k.W
  /\ R' = k.R
  /\ V' = k.V
  /\ cached_blind_worlds' = k.cache
  /\ ret' = r
  /\ UNCHANGED repo

\* Every add_* method returns the object itself.
Self == [op |-> "self"]

add_vals(var, ws) == Becomes([M EXCEPT !.V = Update(M.V, var, ws)], Self)
add_val(var, w) == Becomes([M EXCEPT !.V = Update(M.V, var, {w})], Self)
add_worlds(ws) == Becomes([M EXCEPT !.W = M.W \cup ws], Self)
add_world(w) == Becomes([M EXCEPT !.W = M.W \cup {w}], Self)

\* add_transes adds the pairs one by one; the order does not matter to the
\* dictionary it leaves.
RECURSIVE AddAll(_, _)
AddAll(r, ts) ==
  IF ts = {} THEN r
  ELSE LET t == CHOOSE x \in ts : TRUE
       IN AddAll(Update(r, t[1], {t[2]}), ts \ {t})

add_transes(ts) == Becomes([M EXCEPT !.R = AddAll(M.R, ts)], Self)
add_trans(t) == Becomes([M EXCEPT !.R = Update(M.R, t[1], {t[2]})], Self)

CallBlindWorlds ==
  LET b == blind_worlds(M)
  IN Becomes(b.k, [op |-> "blind_worlds", val |-> b.ret])

CallCalc(e) ==
  LET c == calc(e, M)
  IN Becomes(c.k, [op |-> "calc", arg |-> e, val |-> c.ret])

CallEntails(e) ==
  LET c == entails(e, M)
  IN Becomes(c.k, [op |-> "entails", arg |-> e, val |-> c.ret])

\* The batches passed: the empty one, and two worlds or two edges at once.
WorldBatches == {{}} \cup {{w, w + 1} : w \in 1..(NumWorlds - 1)}
EdgeBatches == {{}} \cup {{<<w, w + 1>>, <<w + 1, w + 1>>} : w \in 1..(NumWorlds - 1)}

Next ==
  \/ \E n \in Valued, ws \in WorldBatches : add_vals(n, ws)
  \/ \E n \in Valued, w \in WorldIds : add_val(n, w)
  \/ \E ws \in WorldBatches : add_worlds(ws)
  \/ \E w \in WorldIds : add_world(w)
  \/ \E ts \in EdgeBatches : add_transes(ts)
  \/ \E t \in WorldIds \X WorldIds : add_trans(t)
  \/ CallBlindWorlds
  \/ \E e \in CalcArgs : CallCalc(e)
  \/ \E e \in EntailsArgs : CallEntails(e)

Spec == KInit /\ [][Next]_vars

-----------------------------------------------------------------------------
(* calc and entails as functions of (expression, model): the model is any  *)
(* one the construction calls can leave within the bounds, and only calc   *)
(* and entails are called on it.  Such a model is left by add_worlds(S),   *)
(* blind_worlds() (or none), then the remaining worlds, the edges E and the *)
(* valuation vp of p: the cache holds S, and R has the keys S besides the   *)
(* sources of E.                                                            *)

Built(w, E, vp, S, filled) ==
  Kripke(w,
         Touch(AddAll(EmptyDict, E), IF filled THEN S ELSE {}),
         IF vp = {} THEN EmptyDict ELSE Update(EmptyDict, "p", vp),
         IF filled THEN <<S>> ELSE None)

PureInit ==
  \E w \in SUBSET WorldIds, E \in SUBSET (WorldIds \X WorldIds),
     vp \in SUBSET WorldIds, filled \in BOOLEAN :
    \E S \in SUBSET w :
      /\ Cardinality(E) + Cardinality(vp) <= MaxElems
      /\ filled \/ S = {}
      /\ W = Built(w, E, vp, S, filled).W
      /\ R = Built(w, E, vp, S, filled).R
      /\ V = Built(w, E, vp, S, filled).V
      /\ cached_blind_worlds = Built(w, E, vp, S, filled).cache
      /\ ret = [op |-> "self"]
      /\ RepoInit

PureNext ==
  \/ \E e \in PureCalcArgs : CallCalc(e)
  \/ \E e \in PureEntailsArgs : CallEntails(e)

SpecPure == PureInit /\ [][PureNext]_vars

-----------------------------------------------------------------------------
(* The interning table.  A symbol written in data.py with a character      *)
(* outside ASCII is named by its code point, "U+2227" for the wedge.       *)

AndSymbols == {"and", "&&", "&", "^", "/\\", "U+2227", "*"}
OrSymbols == {"or", "||", "|", "v", "\\/", "U+2228", "+"}
ImpliesSymbols == {"implies", "->", "=>", "U+2192"}
NotSymbols == {"not", "~", "U+00AC", "!"}
BoxSymbols == {"U+2610", "box"}
DiamondSymbols == {"U+25C7", "diamond"}

ConstantSymbols == {"true", "1", "false", "0"}
TrueSymbols == {"True", "true", "1", "U+22A4"}

infix_operators == AndSymbols \cup OrSymbols \cup ImpliesSymbols
prefix_operators == NotSymbols \cup BoxSymbols \cup DiamondSymbols

\* operator_class: the class a symbol stands for.
operator_class(sym) ==
  CASE sym \in AndSymbols -> "And"
    [] sym \in OrSymbols -> "Or"
    [] sym \in ImpliesSymbols -> "Implies"
    [] sym \in NotSymbols -> "Not"
    [] sym \in BoxSymbols -> "Box"
    [] sym \in DiamondSymbols -> "Diamond"

\* The number of arguments a constructor takes besides self.
Arity(cls) == IF cls \in {"And", "Or", "Implies"} THEN 2 ELSE 1

\* str.lower on the names the calls pass.
Lower(name) ==
  CASE name \in {"True", "TRUE", "true"} -> "true"
    [] name \in {"False", "FALSE", "false"} -> "false"
    [] OTHER -> name

Repo(i, o) == [instances |-> i, objects |-> o]
Table == Repo(instances, objects)

\* No object: Python's None, and no node for a call that raised.
NoNode == 0

\* instances.get(key)
InstancesGet(st, key) ==
  IF key \in DOMAIN st.instances THEN st.instances[key] ELSE NoNode

\* (a table that builds a new object on every call, to compare against)
InternAlways(st, key, obj) ==
  [node |-> Len(st.objects) + 1,
   found |-> FALSE,
   st |-> Repo([k \in (DOMAIN st.instances) \cup {key} |->
                  IF k = key THEN Len(st.objects) + 1 ELSE st.instances[k]],
               Append(st.objects, obj))]

\* The lookup both factories end with: the object stored under the key, or
\* a new object built and stored under it.
Intern(st, key, obj) ==
  IF InstancesGet(st, key) # NoNode
  THEN [node |-> InstancesGet(st, key), found |-> TRUE, st |-> st]
  ELSE [node |-> Len(st.objects) + 1,
        found |-> FALSE,
        st |-> Repo([k \in (DOMAIN st.instances) \cup {key} |->
                       IF k = key THEN Len(st.objects) + 1 ELSE st.instances[k]],
                    Append(st.objects, obj))]

\* create_var_const(name)
create_var_const(name, st) ==
  LET isConst == Lower(name) \in ConstantSymbols
      cls     == IF isConst THEN "Constant" ELSE "Var"
      args    == IF isConst THEN <<Lower(name) \in TrueSymbols>> ELSE <<name>>
  IN Intern(st, <<cls, args[1]>>, [cls |-> cls, args |-> args])

\* create_expression(operator, *kwargs); a constructor called with the wrong
\* number of arguments raises before anything is stored.
create_expression(operator, kwargs, st) ==
  IF operator \in {"var", "const", "varconst"}
  THEN create_var_const(kwargs[1], st)
  ELSE IF Len(kwargs) # Arity(operator_class(operator))
       THEN [node |-> NoNode, found |-> FALSE, st |-> st]
       ELSE Intern(st, <<operator_class(operator), kwargs>>,
                   [cls |-> operator_class(operator), args |-> kwargs])

\* The expression an object is the root of.
RECURSIVE Tree(_, _)
Tree(objs, n) ==
  LET o == objs[n]
  IN CASE o.cls = "Var" -> Var(o.args[1])
       [] o.cls = "Constant" -> Constant(o.args[1])
       [] o.cls = "Not" -> Not(Tree(objs, o.args[1]))
       [] o.cls = "Box" -> Box(Tree(objs, o.args[1]))
       [] o.cls = "Diamond" -> Diamond(Tree(objs, o.args[1]))
       [] o.cls = "And" -> And(Tree(objs, o.args[1]), Tree(objs, o.args[2]))
       [] o.cls = "Or" -> Or(Tree(objs, o.args[1]), Tree(objs, o.args[2]))
       [] o.cls = "Implies" -> Implies(Tree(objs, o.args[1]), Tree(objs, o.args[2]))

-----------------------------------------------------------------------------
(* Calls of the two factories on the module's table.                       *)

CallNames == {"a", "True", "TRUE", "U+22A4"}
PrefixCalls == {"~"}
InfixCalls == {"&", "and", "|"}

\* The variant and arguments a call asks for.
Asked(operator, kwargs) ==
  IF operator \in {"var", "const", "varconst"}
  THEN IF Lower(kwargs[1]) \in ConstantSymbols
       THEN [cls |-> "Constant", args |-> <<Lower(kwargs[1]) \in TrueSymbols>>]
       ELSE [cls |-> "Var", args |-> kwargs]
  ELSE [cls |-> operator_class(operator), args |-> kwargs]

\* The table becomes r.st and the call returns r.node.
Returns(r, asked, call) ==
  /\ Len(r.st.objects) <= MaxObjects
  /\ instances' = r.st.instances
  /\ objects' = r.st.objects
  /\ returned' = IF r.node = NoNode THEN returned
                 ELSE returned \cup {[cls |-> asked.cls, args |-> asked.args, node |-> r.node]}
  /\ ret' = [op |-> call.op, operator |-> call.operator, args |-> call.args,
             node |-> r.node, found |-> r.found]
  /\ UNCHANGED kripke

CallCreateVarConst(name) ==
  Returns(create_var_const(name, Table), Asked("varconst", <<name>>),
          [op |-> "create_var_const", operator |-> "varconst", args |-> <<name>>])

CallCreateExpression(operator, kwargs) ==
  Returns(create_expression(operator, kwargs, Table), Asked(operator, kwargs),
          [op |-> "create_expression", operator |-> operator, args |-> kwargs])

\* The arguments passed: one name, or one or two objects built before, as
\* many as the constructor takes.
Built1 == {<<n>> : n \in 1..Len(objects)}
Built2 == (1..Len(objects)) \X (1..Len(objects))

RepoNext ==
  \/ \E name \in CallNames : CallCreateVarConst(name)
  \/ \E operator \in PrefixCalls, kwargs \in Built1 : CallCreateExpression(operator, kwargs)
  \/ \E operator \in InfixCalls, kwargs \in Built2 : CallCreateExpression(operator, kwargs)
  \/ \E name \in CallNames : CallCreateExpression("varconst", <<name>>)

SpecRepo == KInit /\ [][RepoNext]_vars

-----------------------------------------------------------------------------
(* parser.py.  An input is the sequence of the tokens pyparsing's matchers  *)
(* take from the string, white space skipped: "(", ")", an operator symbol  *)
(* as data.py lists it (a caseless match returns the listed symbol), or a   *)
(* word of letters and underscores.  A parse action runs as soon as its     *)
(* element has matched, so the table keeps what the actions interned also   *)
(* when the whole parse fails afterwards.                                   *)

InputWords == {"a", "b", "c"}

\* Word(alphas + '_'): the tokens made of letters, operator words included.
Alphabetic ==
  InputWords \cup {"and", "or", "v", "implies", "not", "box", "diamond"}

\* The symbols of the three infix levels of _bnf: and_expr, or_expr and
\* expression.
LevelSymbols(l) ==
  CASE l = 1 -> AndSymbols
    [] l = 2 -> OrSymbols
    [] l = 3 -> ImpliesSymbols

Failed(st) == [ok |-> FALSE, pos |-> 0, node |-> NoNode, st |-> st]
Matched(pos, node, st) == [ok |-> TRUE, pos |-> pos, node |-> node, st |-> st]

\* parse_prefix_op(toks): toks reversed, the atom first, then each operator
\* applied to what has been built.
RECURSIVE parse_prefix_op(_, _)
parse_prefix_op(toks, st) ==
  IF Len(toks) = 1
  THEN [node |-> toks[1], st |-> st]
  ELSE LET n   == Len(toks)
           res == create_expression(toks[n - 1], <<toks[n]>>, st)
       IN parse_prefix_op(SubSeq(toks, 1, n - 2) \o <<res.node>>, res.st)

\* (a fold of the chain from the right, to compare against)
parse_infix_op_right(toks, st) ==
  LET FoldRight[i \in 1..Len(toks)] ==
        IF i = Len(toks)
        THEN [node |-> toks[i], st |-> st]
        ELSE IF i % 2 = 0
             THEN FoldRight[i + 1]
             ELSE LET right == FoldRight[i + 2]
                      made  == create_expression(toks[i + 1], <<toks[i], right.node>>, right.st)
                  IN [node |-> made.node, st |-> made.st]
  IN FoldRight[1]

\* parse_infix_op(toks): left = toks[0], then every (operator, operand) pair
\* of toks[1::2], toks[2::2] folded onto it.
RECURSIVE parse_infix_fold(_, _, _, _)
parse_infix_fold(toks, i, left, st) ==
  IF i + 1 > Len(toks)
  THEN [node |-> left, st |-> st]
  ELSE LET made == create_expression(toks[i], <<left, toks[i + 1]>>, st)
       IN parse_infix_fold(toks, i + 2, made.node, made.st)

parse_infix_op(toks, st) == parse_infix_fold(toks, 2, toks[1], st)

\* ZeroOrMore(prefix_op): the prefix operators standing at position i.
RECURSIVE PrefixRun(_, _)
PrefixRun(s, i) ==
  IF i <= Len(s) /\ s[i] \in prefix_operators
  THEN <<s[i]>> \o PrefixRun(s, i + 1)
  ELSE <<>>

\* The productions of _bnf, by level: 0 is atom, 1 prefix_expr, 2 and_expr,
\* 3 or_expr and 4 expression.
AtomLevel == 0
PrefixLevel == 1
ExpressionLevel == 4

\* The symbols of the infix production of level l.
SymbolsAt(l) == LevelSymbols(l - 1)

RECURSIVE p_bnf(_, _, _, _)
RECURSIVE p_repeat(_, _, _, _, _)

\* ZeroOrMore(symbol + operand) of the infix level l: stops, without
\* failing, before a symbol that no operand follows.
p_repeat(l, s, pos, st, toks) ==
  IF pos <= Len(s) /\ s[pos] \in SymbolsAt(l)
  THEN LET operand == p_bnf(l - 1, s, pos + 1, st)
       IN IF operand.ok
          THEN p_repeat(l, s, operand.pos, operand.st, toks \o <<s[pos], operand.node>>)
          ELSE [pos |-> pos, st |-> operand.st, toks |-> toks]
  ELSE [pos |-> pos, st |-> st, toks |-> toks]

p_bnf(l, s, i, st) ==
  CASE l = AtomLevel ->
         \* atom = varconst | nest
         IF i > Len(s) THEN Failed(st)
         ELSE IF s[i] \in Alphabetic
         THEN LET made == create_var_const(s[i], st)
              IN Matched(i + 1, made.node, made.st)
         ELSE IF s[i] = "("
         THEN LET inner == p_bnf(ExpressionLevel, s, i + 1, st)
              IN IF inner.ok /\ inner.pos <= Len(s) /\ s[inner.pos] = ")"
                 THEN Matched(inner.pos + 1, inner.node, inner.st)
                 ELSE Failed(inner.st)
         ELSE Failed(st)
    [] l = PrefixLevel ->
         \* prefix_expr = ZeroOrMore(prefix_op) + atom, then parse_prefix_op
         LET ops  == PrefixRun(s, i)
             atom == p_bnf(AtomLevel, s, i + Len(ops), st)
         IN IF ~atom.ok THEN Failed(atom.st)
            ELSE LET res == parse_prefix_op(ops \o <<atom.node>>, atom.st)
                 IN Matched(atom.pos, res.node, res.st)
    [] OTHER ->
         \* and_expr, or_expr, expression: an operand of the level below,
         \* the repetition, then parse_infix_op
         LET first == p_bnf(l - 1, s, i, st)
         IN IF ~first.ok THEN Failed(first.st)
            ELSE LET more == p_repeat(l, s, first.pos, first.st, <<first.node>>)
                     res  == parse_infix_op(more.toks, more.st)
                 IN Matched(more.pos, res.node, res.st)

\* parse(string): the first token of parseString's result; it raises (ok is
\* FALSE) when the expression does not match at the start of the input.
parse(string, st) ==
  LET r == p_bnf(ExpressionLevel, string, 1, st)
  IN [ok |-> r.ok, node |-> r.node, st |-> r.st]

-----------------------------------------------------------------------------
(* Calls of parse on the module's table.                                   *)

ChainSymbols == {"&", "and", "|", "->"}

\* x1 o1 x2 and x1 o1 x2 o2 x3 over the operands a, b, c, bare and with one
\* pair parenthesised.
Chains2 == {<<"a", o, "b">> : o \in ChainSymbols}
Chains3 == {<<"a", o[1], "b", o[2], "c">> : o \in ChainSymbols \X ChainSymbols}
ParenLeft(s) == <<"(", s[1], s[2], s[3], ")", s[4], s[5]>>
ParenRight(s) == <<s[1], s[2], "(", s[3], s[4], s[5], ")">>

PrefixInputs ==
  {<<"~", "~", "a">>, <<"~", "a", "&", "b">>, <<"box", "a", "->", "diamond", "b">>,
   <<"~", "(", "a", "|", "b", ")">>}

\* Inputs that are no formula, or a formula and more.
OtherInputs ==
  {<<>>, <<"(", "a">>, <<"a", "&">>, <<"a", "b">>, <<")">>, <<"1">>, <<"a", ")">>}

Inputs ==
  {<<"a">>} \cup Chains2 \cup Chains3 \cup {ParenLeft(s) : s \in Chains3}
    \cup {ParenRight(s) : s \in Chains3} \cup PrefixInputs \cup OtherInputs

CallParse(string) ==
  LET r == parse(string, Table)
  IN /\ Len(r.st.objects) <= MaxParsed
     /\ instances' = r.st.instances
     /\ objects' = r.st.objects
     /\ ret' = [op |-> "parse", string |-> string, ok |-> r.ok, node |-> r.node]
     /\ UNCHANGED <<kripke, returned>>

ParseNext == \E string \in Inputs : CallParse(string)

SpecParse == KInit /\ [][ParseNext]_vars

-----------------------------------------------------------------------------
(* What a call made now would return.                                      *)

\* calc(e) called on the model as it stands.
CalcNow(e) == calc(e, M).ret

\* calc(a) and then calc(b) return the same set (the first call may have
\* filled the cache and inserted keys).
SameResult(a, b) == LET first == calc(a, M) IN first.ret = calc(b, first.k).ret

\* The relation as a set of edges.
Edges == {t \in WorldIds \X WorldIds : t[2] \in Get(R, t[1])}

-----------------------------------------------------------------------------
\* C1: blind_worlds() returns exactly the worlds of W that have no outgoing
\* edge at the time of the call, whatever calls came before it.
C1_BlindWorldsNeverStale ==
  ret.op = "blind_worlds" => ret.val = NoSuccessors(M)

\* C3: calc(e) is a subset of W, for every expression and every model, also
\* one whose valuation or relation mentions undeclared worlds.
C3_CalcWithinWorlds == \A e \in Exprs1 : CalcNow(e) \subseteq W

\* C4: calc(Box(e)) equals calc(Not(Diamond(Not(e)))).
C4_BoxDiamondDuality ==
  \A e \in Exprs1 : SameResult(Box(e), Not(Diamond(Not(e))))

\* C5: calc(Implies(a, b)) equals calc(Or(Not(a), b)), also when calc(a) is
\* empty and b is not evaluated.
C5_ImpliesReduction ==
  \A a \in Operands, b \in Operands : SameResult(Implies(a, b), Or(Not(a), b))

\* C6: calc(Not(Not(e))) equals calc(e).
C6_DoubleNegation == \A e \in Exprs1 : SameResult(Not(Not(e)), e)

\* C7: calc(Not(And(a, b))) equals calc(Or(Not(a), Not(b))) and
\* calc(Not(Or(a, b))) equals calc(And(Not(a), Not(b))).
C7_DeMorgan ==
  \A a \in Operands, b \in Operands :
    /\ SameResult(Not(And(a, b)), Or(Not(a), Not(b)))
    /\ SameResult(Not(Or(a, b)), And(Not(a), Not(b)))

\* calc(Not(And(p, Box(p)))) has returned a set that is neither empty nor
\* all of W, with p and Box(p) holding in different worlds.
C7_Witness ==
  /\ ret.op = "calc"
  /\ ret.arg = Not(And(Var("p"), Box(Var("p"))))
  /\ ret.val # {} /\ ret.val # W
  /\ CalcNow(Var("p")) # CalcNow(Box(Var("p")))
  /\ CalcNow(And(Var("p"), Box(Var("p")))) # {}

\* The model of the worked example: W = {w1, w2}, R = {(w1, w2)}, V(p) = {w2}.
Scenario1 == W = {1, 2} /\ Edges = {<<1, 2>>} /\ Get(V, "p") = {2}

\* C8: a world of W with no outgoing edge is in calc(Box(e)) and not in
\* calc(Diamond(e)) for every e; with W = {w1, w2}, R = {(w1, w2)} and
\* V(p) = {w2}, calc(Box(p)) = {w1, w2} and calc(Diamond(p)) = {w1}.
C8_BlindVacuousTruth ==
  /\ \A w \in NoSuccessors(M), e \in Samples :
        w \in CalcNow(Box(e)) /\ w \notin CalcNow(Diamond(e))
  /\ Scenario1 => CalcNow(Box(Var("p"))) = {1, 2} /\ CalcNow(Diamond(Var("p"))) = {1}

\* calc(Box(p)) has returned {w1, w2} on the model of scenario 1, where w2
\* is blind.
C8_Witness ==
  /\ Scenario1
  /\ ret.op = "calc" /\ ret.arg = Box(Var("p")) /\ ret.val = {1, 2}
  /\ 2 \in NoSuccessors(M)

\* C9: entails(e) is true exactly when calc(e) equals W as a set.
C9_EntailsIffAllWorlds ==
  /\ \A e \in Samples : entails(e, M).ret <=> (CalcNow(e) = W)
  /\ ret.op = "entails" => (ret.val <=> (CalcNow(ret.arg) = W))

\* entails(p) has returned false where p holds in every world of W and in
\* an undeclared one besides.
C9_Witness ==
  /\ ret.op = "entails" /\ ret.arg = Var("p") /\ ret.val = FALSE
  /\ W # {} /\ W \subseteq Get(V, "p") /\ Get(V, "p") # W

\* Two create calls returned the same object exactly when they asked for the
\* same class with the same arguments.
C2_SameKeySameNode ==
  \A c1 \in returned, c2 \in returned :
    (c1.cls = c2.cls /\ c1.args = c2.args) <=> (c1.node = c2.node)

\* A step keeps every entry of the table as it is.
C2_EntriesKept ==
  \A k \in DOMAIN instances : k \in DOMAIN instances' /\ instances'[k] = instances[k]

\* C2: two create calls asking for the same variant with the same arguments
\* (aliases of one operator being one variant, children compared by
\* identity) return the same object, two calls asking for different ones
\* return different objects, and an entry of the table is never replaced.
C2_Interning == []C2_SameKeySameNode /\ [][C2_EntriesKept]_vars

\* create_expression has found And(a, b) in the table under an alias of the
\* symbol it was built with or the same, with two more objects around.
C2_Witness ==
  /\ ret.op = "create_expression" /\ ret.operator = "and" /\ ret.found
  /\ Cardinality(returned) >= 3
  /\ \E c \in returned : c.cls = "Or" /\ c.args = ret.args

\* The level of an infix symbol: 1 And, 2 Or, 3 Implies.
Level(o) == CHOOSE l \in 1..3 : o \in LevelSymbols(l)

\* The expression an infix symbol builds of two operands.
InfixOf(o, l, r) ==
  CASE Level(o) = 1 -> And(l, r)
    [] Level(o) = 2 -> Or(l, r)
    [] Level(o) = 3 -> Implies(l, r)

\* The tree claimed for a bare chain of two or three operands.
Claimed(s) ==
  IF Len(s) = 3 THEN InfixOf(s[2], Var(s[1]), Var(s[3]))
  ELSE IF Level(s[2]) <= Level(s[4])
       THEN InfixOf(s[4], InfixOf(s[2], Var(s[1]), Var(s[3])), Var(s[5]))
       ELSE InfixOf(s[2], Var(s[1]), InfixOf(s[4], Var(s[3]), Var(s[5])))

\* C10: a chain x1 o1 x2 ... on xn whose operators are of one level (And,
\* Or or Implies) parses to the left fold on(...o1(x1, x2)..., xn), so
\* a -> b -> c gives Implies(Implies(a, b), c) and a & b & c the very object
\* of (a & b) & c; of two operators of different levels the one of And
\* binds tighter than the one of Or, that tighter than the one of Implies,
\* and a prefix operator tighter than all three.
C10_ChainsFoldLeft ==
  /\ ret.op = "parse" /\ ret.string \in Chains2 \cup Chains3 =>
       ret.ok /\ Tree(objects, ret.node) = Claimed(ret.string)
  /\ ret.op = "parse" /\ ret.string = <<"a", "->", "b", "->", "c">> =>
       Tree(objects, ret.node) = Implies(Implies(Var("a"), Var("b")), Var("c"))
  /\ ret.op = "parse" /\ ret.string = <<"~", "a", "&", "b">> =>
       Tree(objects, ret.node) = And(Not(Var("a")), Var("b"))
  /\ \A s \in Chains3 :
       Level(s[2]) = Level(s[4]) =>
         LET bare == parse(s, Table)
         IN parse(ParenLeft(s), bare.st).node = bare.node

\* parse has returned Implies(Implies(a, b), c) for a -> b -> c.
C10_Witness ==
  /\ ret.op = "parse" /\ ret.string = <<"a", "->", "b", "->", "c">> /\ ret.ok
  /\ Tree(objects, ret.node) = Implies(Implies(Var("a"), Var("b")), Var("c"))
  /\ Len(objects) = 5

\* The expression production of _bnf matches the input from its start to its
\* end: the input is a complete formula of the grammar.
Complete(string) ==
  LET r == p_bnf(ExpressionLevel, string, 1, Table)
  IN r.ok /\ r.pos = Len(string) + 1

\* C11: parse fails, and returns no expression, for every input that is not
\* a complete formula of the grammar: the empty input, unbalanced
\* parentheses, an unrecognized token, a formula followed by more input.
C11_MalformedInputFails ==
  ret.op = "parse" /\ ~Complete(ret.string) => ~ret.ok /\ ret.node = NoNode

\* The model k without the edges whose source or target is not in W, and
\* with nothing cached.
Declared(k) ==
  [k EXCEPT !.R = [x \in DOMAIN k.R |-> IF x \in k.W THEN k.R[x] \cap k.W ELSE {}],
            !.cache = None]

\* C12: edges to or from undeclared worlds are inert: two models with the
\* same W and V whose relations differ only in edges with a source or a
\* target outside W give the same calc(e) for every e (each such model
\* compared with the one that has none of these edges, nothing cached in
\* either).
C12_UndeclaredEdgesInert ==
  \A e \in Exprs1 :
    calc(e, [M EXCEPT !.cache = None]).ret = calc(e, Declared(M)).ret

\* The names the claim lists for the two constants, in the spellings the
\* calls pass.
ClaimedTrue == {"true", "True", "TRUE", "1", "U+22A4"}
ClaimedFalse == {"false", "False", "FALSE", "0", "U+22A5"}

ClaimedVarConst(name) ==
  IF name \in ClaimedTrue THEN Constant(TRUE)
  ELSE IF name \in ClaimedFalse THEN Constant(FALSE)
  ELSE Var(name)

\* C13: create_var_const(name) returns Constant(true) for a name that is,
\* whatever its case, "true", "1" or U+22A4, Constant(false) for one that is
\* "false", "0" or U+22A5, and Var(name) for every other name.
C13_VarConstAliases ==
  ret.op = "create_var_const" =>
    Tree(objects, ret.node) = ClaimedVarConst(ret.args[1])

\* C14: a call of calc leaves W, the relation (its keys and each successor
\* set) and the valuation (its keys and each world set) as they were, also
\* for a variable with no valuation entry and worlds with no relation entry.
C14_CalcLeavesModel ==
  [][ret'.op = "calc" => W' = W /\ R' = R /\ V' = V]_vars

====
